---- MODULE Spec2Model ----
(***************************************************************************)
(* A model of backend/server.py: the chat endpoints of the AI learning     *)
(* platform for kids, their two text helpers (make_kid_friendly and        *)
(* is_content_safe_for_kids) and the two MongoDB collections they use.     *)
(*                                                                         *)
(* A Python str is a TLA+ string; its i-th character is SubSeq(s, i, i).   *)
(***************************************************************************)
EXTENDS Integers, Sequences, FiniteSets, TLC

VARIABLES
    input,          \* text harness: the two str arguments of a helper call
    result,         \* text harness: what the last helper call returned
    api_key,        \* whether EMERGENT_LLM_KEY is set in the environment
    clock,          \* what datetime.now(timezone.utc) returns
    chat_sessions,  \* db.chat_sessions: the session documents
    chat_messages,  \* db.chat_messages: the message documents, in natural order
    req,            \* the POST chat/message requests, each one coroutine
    listing         \* the body of the GET chat/messages response just sent

vars == <<input, result, api_key, clock, chat_sessions, chat_messages, req, listing>>

-----------------------------------------------------------------------------
(* Python's str operations.                                                *)

CharAt(s, i) == SubSeq(s, i, i)

\* The lower-case letter of each upper-case letter.
LowerOf ==
    ("A" :> "a") @@ ("B" :> "b") @@ ("C" :> "c") @@ ("D" :> "d") @@ ("E" :> "e") @@ ("F" :> "f") @@
    ("G" :> "g") @@ ("H" :> "h") @@ ("I" :> "i") @@ ("J" :> "j") @@ ("K" :> "k") @@ ("L" :> "l") @@
    ("M" :> "m") @@ ("N" :> "n") @@ ("O" :> "o") @@ ("P" :> "p") @@ ("Q" :> "q") @@ ("R" :> "r") @@
    ("S" :> "s") @@ ("T" :> "t") @@ ("U" :> "u") @@ ("V" :> "v") @@ ("W" :> "w") @@ ("X" :> "x") @@
    ("Y" :> "y") @@ ("Z" :> "z")

\* str.lower() on one character (the texts of the model are ASCII but for
\* the four characters that end the fallback reply, which have no case).
lower_char(c) == IF c \in DOMAIN LowerOf THEN LowerOf[c] ELSE c

RECURSIVE str_lower(_)
str_lower(s) ==
    IF s = "" THEN ""
    ELSE lower_char(CharAt(s, 1)) \o str_lower(SubSeq(s, 2, Len(s)))

\* needle in hay
str_contains(hay, needle) ==
    \E i \in 1..(Len(hay) - Len(needle) + 1) : SubSeq(hay, i, i + Len(needle) - 1) = needle

\* s.replace(old, new): the occurrences of old are found from the left and do
\* not overlap; old is never empty here.
RECURSIVE str_replace(_, _, _)
str_replace(s, old, new) ==
    IF Len(s) < Len(old) THEN s
    ELSE IF SubSeq(s, 1, Len(old)) = old
         THEN new \o str_replace(SubSeq(s, Len(old) + 1, Len(s)), old, new)
         ELSE CharAt(s, 1) \o str_replace(SubSeq(s, 2, Len(s)), old, new)

-----------------------------------------------------------------------------
(* The two helpers.                                                        *)

unsafe_keywords ==
    << "violence", "weapon", "kill", "death", "blood", "war", "fight",
       "inappropriate", "adult", "mature", "scary", "horror", "fear",
       "hate", "racism", "discrimination", "bullying", "mean" >>

\* Mutant: the combined text is not lower-cased.
is_content_safe_case_sensitive(message, response) ==
    LET combined_text == message \o " " \o response
    IN  ~ \E k \in 1..Len(unsafe_keywords) : str_contains(combined_text, unsafe_keywords[k])

is_content_safe_for_kids(message, response) ==
    LET combined_text == str_lower(message \o " " \o response)
    IN  ~ \E k \in 1..Len(unsafe_keywords) : str_contains(combined_text, unsafe_keywords[k])

\* Mutant: 'generate' is declared before 'processing'.
replacements_generate_first ==
    << [complex_word |-> "artificial intelligence", simple_word |-> "AI (like a smart computer)"],
       [complex_word |-> "algorithm", simple_word |-> "computer instructions"],
       [complex_word |-> "machine learning", simple_word |-> "how computers learn"],
       [complex_word |-> "neural network", simple_word |-> "computer brain"],
       [complex_word |-> "generate", simple_word |-> "create"],
       [complex_word |-> "processing", simple_word |-> "thinking"],
       [complex_word |-> "sophisticated", simple_word |-> "smart"],
       [complex_word |-> "complexity", simple_word |-> "how hard something is"],
       [complex_word |-> "analyze", simple_word |-> "look at carefully"],
       [complex_word |-> "implement", simple_word |-> "make it work"] >>

\* The dict literal, in its insertion order (which is the order of .items()).
replacements ==
    << [complex_word |-> "artificial intelligence", simple_word |-> "AI (like a smart computer)"],
       [complex_word |-> "algorithm", simple_word |-> "computer instructions"],
       [complex_word |-> "machine learning", simple_word |-> "how computers learn"],
       [complex_word |-> "neural network", simple_word |-> "computer brain"],
       [complex_word |-> "processing", simple_word |-> "thinking"],
       [complex_word |-> "generate", simple_word |-> "create"],
       [complex_word |-> "sophisticated", simple_word |-> "smart"],
       [complex_word |-> "complexity", simple_word |-> "how hard something is"],
       [complex_word |-> "analyze", simple_word |-> "look at carefully"],
       [complex_word |-> "implement", simple_word |-> "make it work"] >>

\* The for loop of make_kid_friendly from its i-th item on.
RECURSIVE replace_loop(_, _)
replace_loop(res, i) ==
    IF i > Len(replacements) THEN res
    ELSE replace_loop(str_replace(res, replacements[i].complex_word, replacements[i].simple_word), i + 1)

\* Mutant: the loop misses the first item.
make_kid_friendly_skips_first(response) == replace_loop(response, 2)

make_kid_friendly(response) == replace_loop(response, 1)

FallbackResponse ==
    "Let's talk about something more fun! How about we explore how AI helps create cool games or helps robots move around? ü§ñ"

\* Mutant: the reply is kept when it is classified unsafe.
sanitize_keeps_reply(message, ai_response) ==
    LET kid_friendly_response == make_kid_friendly(ai_response)
        is_safe == is_content_safe_for_kids(message, kid_friendly_response)
    IN  [response |-> kid_friendly_response, is_safe |-> is_safe]

\* Mutant: the classifier is given the raw reply.
sanitize_classifies_raw(message, ai_response) ==
    LET kid_friendly_response == make_kid_friendly(ai_response)
        is_safe == is_content_safe_for_kids(message, ai_response)
    IN  [response |-> IF ~ is_safe THEN FallbackResponse ELSE kid_friendly_response,
         is_safe |-> is_safe]

\* Mutant: the classifier is not given the user message.
sanitize_ignores_message(message, ai_response) ==
    LET kid_friendly_response == make_kid_friendly(ai_response)
        is_safe == is_content_safe_for_kids("", kid_friendly_response)
    IN  [response |-> IF ~ is_safe THEN FallbackResponse ELSE kid_friendly_response,
         is_safe |-> is_safe]

\* send_chat_message from the model's reply to the text and flag it stores.
sanitize(message, ai_response) ==
    LET kid_friendly_response == make_kid_friendly(ai_response)
        is_safe == is_content_safe_for_kids(message, kid_friendly_response)
    IN  [response |-> IF ~ is_safe THEN FallbackResponse ELSE kid_friendly_response,
         is_safe |-> is_safe]

-----------------------------------------------------------------------------
(* Time. The clock counts half seconds from 2025-01-01T00:00:00 UTC and    *)
(* stays within the first minute, so that only the second and microsecond  *)
(* fields of a datetime vary.                                              *)

MaxClock == 2

\* datetime.now(timezone.utc)
utcnow(ticks) == [second |-> ticks \div 2, microsecond |-> (ticks % 2) * 500000]

DigitOf == (0 :> "0") @@ (1 :> "1") @@ (2 :> "2") @@ (3 :> "3") @@ (4 :> "4") @@
           (5 :> "5") @@ (6 :> "6") @@ (7 :> "7") @@ (8 :> "8") @@ (9 :> "9")

ValueOf == ("0" :> 0) @@ ("1" :> 1) @@ ("2" :> 2) @@ ("3" :> 3) @@ ("4" :> 4) @@
           ("5" :> 5) @@ ("6" :> 6) @@ ("7" :> 7) @@ ("8" :> 8) @@ ("9" :> 9)

\* The code point of each character of an ISO string.
CodeOf == ("+" :> 43) @@ ("-" :> 45) @@ ("." :> 46) @@ ("0" :> 48) @@ ("1" :> 49) @@
          ("2" :> 50) @@ ("3" :> 51) @@ ("4" :> 52) @@ ("5" :> 53) @@ ("6" :> 54) @@
          ("7" :> 55) @@ ("8" :> 56) @@ ("9" :> 57) @@ (":" :> 58) @@ ("T" :> 84)

\* n in decimal, zero-padded to width digits ("%02d", "%06d").
RECURSIVE zero_padded(_, _)
zero_padded(n, width) ==
    IF width = 0 THEN ""
    ELSE zero_padded(n \div 10, width - 1) \o DigitOf[n % 10]

RECURSIVE int_of(_)
int_of(digits) ==
    IF digits = "" THEN 0
    ELSE 10 * int_of(SubSeq(digits, 1, Len(digits) - 1)) + ValueOf[CharAt(digits, Len(digits))]

IsoPrefix == "2025-01-01T00:00:"

\* datetime.isoformat() of an aware UTC datetime: the fraction is left out
\* when the microsecond is 0.
isoformat(dt) ==
    IsoPrefix \o zero_padded(dt.second, 2)
        \o (IF dt.microsecond = 0 THEN "" ELSE "." \o zero_padded(dt.microsecond, 6))
        \o "+00:00"

\* datetime.fromisoformat() on what isoformat() writes.
fromisoformat(s) ==
    LET n == Len(IsoPrefix)
    IN  [second |-> int_of(SubSeq(s, n + 1, n + 2)),
         microsecond |-> IF CharAt(s, n + 3) = "." THEN int_of(SubSeq(s, n + 4, n + 9)) ELSE 0]

\* The length of the longest common prefix of a and b, which is at least lo
\* and less than hi.
RECURSIVE common_prefix(_, _, _, _)
common_prefix(a, b, lo, hi) ==
    IF hi - lo <= 1 THEN lo
    ELSE LET mid == (lo + hi) \div 2
         IN  IF SubSeq(a, 1, mid) = SubSeq(b, 1, mid)
             THEN common_prefix(a, b, mid, hi)
             ELSE common_prefix(a, b, lo, mid)

\* a < b as MongoDB orders two strings: by the first character that differs,
\* a proper prefix first.
str_less(a, b) ==
    IF a = b THEN FALSE
    ELSE LET shorter == IF Len(a) <= Len(b) THEN Len(a) ELSE Len(b)
             k == common_prefix(a, b, 0, shorter + 1)
         IN  IF k = shorter THEN Len(a) < Len(b)
             ELSE CodeOf[CharAt(a, k + 1)] < CodeOf[CharAt(b, k + 1)]

DatetimeKeys == {"timestamp", "created_at"}

prepare_for_mongo(data) ==
    [key \in DOMAIN data |->
        IF key \in DatetimeKeys THEN isoformat(data[key]) ELSE data[key]]

parse_from_mongo(item) ==
    [key \in DOMAIN item |->
        IF key \in DatetimeKeys THEN fromisoformat(item[key]) ELSE item[key]]

-----------------------------------------------------------------------------
(* The requests and the store.                                             *)

MaxRequests == 2

Requests == 1..MaxRequests

\* The uuid4 ids of the sessions.
SessionIds == {"s1", "s2"}

\* The one session of the specification of the POST handlers.
OneSession == {"s1"}

SessionNames == {"My AI chat"}

Messages == {"What is AI?", "Tell me about VIOLENCE and weapons"}

\* What the provider may answer.
Replies == {"AI is a kind of processing that helps computers", "Wars are bad"}

\* model_provider and model_name of the request (here their defaults).
ModelChoices == {[model_provider |-> "openai", model_name |-> "gpt-5"]}

NoChatMessage == [id |-> 0]

IdleRequest ==
    [pc |-> "idle", session_id |-> "", message |-> "", model_provider |-> "",
     model_name |-> "", llm_calls |-> 0, ai_response |-> "",
     chat_message |-> NoChatMessage, status |-> 0, detail |-> "", body |-> NoChatMessage]

NoResult == [op |-> "none"]

NoListing == [session_id |-> "none", messages |-> << >>]

NoInput == [message |-> "", response |-> ""]

HarnessUnchanged == UNCHANGED <<input, result>>

\* The except clause: every exception, the HTTPException of the missing key
\* included, becomes an HTTP 500. detail keeps the text of the exception
\* caught, which the response wraps in "Failed to process chat message: ".
http_500(r, detail) == [r EXCEPT !.pc = "done", !.status = 500, !.detail = detail]

\* The session ids the server or a client has used so far.
session_ids_seen ==
    {chat_sessions[i].id : i \in 1..Len(chat_sessions)}
        \cup {chat_messages[i].session_id : i \in 1..Len(chat_messages)}
        \cup {req[p].session_id : p \in DOMAIN req}

\* POST chat/session. The id is a fresh uuid4: a client learns it from the
\* response, and no request has named it before.
create_chat_session(id, session_name) ==
    /\ id \notin session_ids_seen
    /\ LET session_obj == [id |-> id, session_name |-> session_name,
                           created_at |-> utcnow(clock), total_messages |-> 0]
       IN  chat_sessions' = Append(chat_sessions, prepare_for_mongo(session_obj))
    /\ listing' = NoListing
    /\ UNCHANGED <<api_key, clock, chat_messages, req>>
    /\ HarnessUnchanged

\* POST chat/message up to the await of chat.send_message: the key is read,
\* and without one the request ends there.
send_chat_message(p, session_id, message, model) ==
    /\ req[p].pc = "idle"
    /\ LET r == [req[p] EXCEPT !.session_id = session_id, !.message = message,
                               !.model_provider = model.model_provider,
                               !.model_name = model.model_name]
       IN  req' = [req EXCEPT ![p] =
                IF ~ api_key THEN http_500(r, "API key not configured")
                ELSE [r EXCEPT !.pc = "send_message", !.llm_calls = @ + 1]]
    /\ listing' = NoListing
    /\ UNCHANGED <<api_key, clock, chat_sessions, chat_messages>>
    /\ HarnessUnchanged

\* Mutant: the user message is kept in a module-level variable, which the
\* latest request still awaiting its reply has overwritten.
llm_replies_shared_message(p, ai_response) ==
    /\ req[p].pc = "send_message"
    /\ LET r == req[p]
           waiting == {q \in DOMAIN req : req[q].pc = "send_message"}
           latest == CHOOSE q \in waiting : \A x \in waiting : x <= q
           s == sanitize(req[latest].message, ai_response)
           chat_message == [id |-> p, session_id |-> r.session_id, message |-> r.message,
                            response |-> s.response, model_provider |-> r.model_provider,
                            model_name |-> r.model_name, timestamp |-> utcnow(clock),
                            is_safe |-> s.is_safe]
       IN  req' = [req EXCEPT ![p] = [r EXCEPT !.pc = "insert_one",
                                               !.ai_response = ai_response,
                                               !.chat_message = chat_message]]
    /\ listing' = NoListing
    /\ UNCHANGED <<api_key, clock, chat_sessions, chat_messages>>
    /\ HarnessUnchanged

\* Mutant: the ChatMessage is built without is_safe and keeps the default.
llm_replies_default_is_safe(p, ai_response) ==
    /\ req[p].pc = "send_message"
    /\ LET r == req[p]
           s == sanitize(r.message, ai_response)
           chat_message == [id |-> p, session_id |-> r.session_id, message |-> r.message,
                            response |-> s.response, model_provider |-> r.model_provider,
                            model_name |-> r.model_name, timestamp |-> utcnow(clock),
                            is_safe |-> TRUE]
       IN  req' = [req EXCEPT ![p] = [r EXCEPT !.pc = "insert_one",
                                               !.ai_response = ai_response,
                                               !.chat_message = chat_message]]
    /\ listing' = NoListing
    /\ UNCHANGED <<api_key, clock, chat_sessions, chat_messages>>
    /\ HarnessUnchanged

\* chat.send_message returns: the reply is sanitized, the ChatMessage is
\* built and its insert is sent.
llm_replies(p, ai_response) ==
    /\ req[p].pc = "send_message"
    /\ LET r == req[p]
           s == sanitize(r.message, ai_response)
           chat_message == [id |-> p, session_id |-> r.session_id, message |-> r.message,
                            response |-> s.response, model_provider |-> r.model_provider,
                            model_name |-> r.model_name, timestamp |-> utcnow(clock),
                            is_safe |-> s.is_safe]
       IN  req' = [req EXCEPT ![p] = [r EXCEPT !.pc = "insert_one",
                                               !.ai_response = ai_response,
                                               !.chat_message = chat_message]]
    /\ listing' = NoListing
    /\ UNCHANGED <<api_key, clock, chat_sessions, chat_messages>>
    /\ HarnessUnchanged

\* Mutant: a failed provider call is made once more before the request fails.
llm_fails_then_retries(p) ==
    /\ req[p].pc = "send_message"
    /\ req' = [req EXCEPT ![p] =
            IF @.llm_calls < 2 THEN [@ EXCEPT !.llm_calls = @ + 1]
            ELSE http_500(@, "provider error")]
    /\ listing' = NoListing
    /\ UNCHANGED <<api_key, clock, chat_sessions, chat_messages>>
    /\ HarnessUnchanged

\* chat.send_message raises.
llm_fails(p) ==
    /\ req[p].pc = "send_message"
    /\ req' = [req EXCEPT ![p] = http_500(@, "provider error")]
    /\ listing' = NoListing
    /\ UNCHANGED <<api_key, clock, chat_sessions, chat_messages>>
    /\ HarnessUnchanged

\* db.chat_messages.insert_one is done, and the update of the session is sent.
insert_done(p) ==
    /\ req[p].pc = "insert_one"
    /\ chat_messages' = Append(chat_messages, prepare_for_mongo(req[p].chat_message))
    /\ req' = [req EXCEPT ![p].pc = "update_one"]
    /\ listing' = NoListing
    /\ UNCHANGED <<api_key, clock, chat_sessions>>
    /\ HarnessUnchanged

\* db.chat_messages.insert_one raises.
insert_fails(p) ==
    /\ req[p].pc = "insert_one"
    /\ req' = [req EXCEPT ![p] = http_500(@, "insert error")]
    /\ listing' = NoListing
    /\ UNCHANGED <<api_key, clock, chat_sessions, chat_messages>>
    /\ HarnessUnchanged

\* Mutant: the update has an empty filter and counts on the first session.
update_one_inc_any_session(sessions, session_id) ==
    IF Len(sessions) = 0 THEN sessions
    ELSE [sessions EXCEPT ![1].total_messages = @ + 1]

\* update_one({"id": session_id}, {"$inc": {"total_messages": 1}}): the first
\* document with that id, if there is one.
update_one_inc(sessions, session_id) ==
    LET found == {i \in 1..Len(sessions) : sessions[i].id = session_id}
    IN  IF found = {} THEN sessions
        ELSE LET i == CHOOSE i \in found : \A j \in found : i <= j
             IN  [sessions EXCEPT ![i].total_messages = @ + 1]

\* db.chat_sessions.update_one is done, and the ChatMessage is returned.
update_done(p) ==
    /\ req[p].pc = "update_one"
    /\ chat_sessions' = update_one_inc(chat_sessions, req[p].session_id)
    /\ req' = [req EXCEPT ![p] = [@ EXCEPT !.pc = "done", !.status = 200,
                                             !.body = req[p].chat_message]]
    /\ listing' = NoListing
    /\ UNCHANGED <<api_key, clock, chat_messages>>
    /\ HarnessUnchanged

\* db.chat_sessions.update_one raises.
update_fails(p) ==
    /\ req[p].pc = "update_one"
    /\ req' = [req EXCEPT ![p] = http_500(@, "update error")]
    /\ listing' = NoListing
    /\ UNCHANGED <<api_key, clock, chat_sessions, chat_messages>>
    /\ HarnessUnchanged

ToListLimit == 1000

\* find({"session_id": session_id})
find_by_session(session_id) ==
    SelectSeq(chat_messages, LAMBDA doc : doc.session_id = session_id)

\* Mutant: the documents are left in their natural order.
sort_missing(docs, ties_reversed) == docs

\* .sort("timestamp", 1): ascending by the stored string; documents with the
\* same timestamp come in their natural order or in the reverse of it.
sort_by_timestamp(docs, ties_reversed) ==
    SortSeq(docs, LAMBDA a, b :
        \/ str_less(a.timestamp, b.timestamp)
        \/ ties_reversed /\ a.timestamp = b.timestamp)

\* .to_list(length)
to_list(docs, length) ==
    SubSeq(docs, 1, IF Len(docs) <= length THEN Len(docs) ELSE length)

\* [ChatMessage(**parse_from_mongo(message)) for message in messages]
chat_message_list(messages) ==
    [i \in 1..Len(messages) |-> parse_from_mongo(messages[i])]

\* GET chat/messages/{session_id}
get_chat_messages(session_id, ties_reversed) ==
    /\ listing' =
        [session_id |-> session_id,
         messages |-> chat_message_list(
            to_list(sort_by_timestamp(find_by_session(session_id), ties_reversed),
                    ToListLimit))]
    /\ UNCHANGED <<api_key, clock, chat_sessions, chat_messages, req>>
    /\ HarnessUnchanged

\* Time passes.
Tick ==
    /\ clock < MaxClock
    /\ clock' = clock + 1
    /\ listing' = NoListing
    /\ UNCHANGED <<api_key, chat_sessions, chat_messages, req>>
    /\ HarnessUnchanged

Init ==
    /\ input = NoInput
    /\ result = NoResult
    /\ api_key \in BOOLEAN
    /\ clock = 0
    /\ chat_sessions = << >>
    /\ chat_messages = << >>
    /\ req = [p \in Requests |-> IdleRequest]
    /\ listing = NoListing

Next ==
    \/ \E id \in OneSession, name \in SessionNames : create_chat_session(id, name)
    \/ \E p \in Requests, sid \in OneSession, m \in Messages, model \in ModelChoices :
            send_chat_message(p, sid, m, model)
    \/ \E p \in Requests, reply \in Replies : llm_replies(p, reply)
    \/ \E p \in Requests : llm_fails(p)
    \/ \E p \in Requests : insert_done(p)
    \/ \E p \in Requests : insert_fails(p)
    \/ \E p \in Requests : update_done(p)
    \/ \E p \in Requests : update_fails(p)

Spec == Init /\ [][Next]_vars

-----------------------------------------------------------------------------
(* Replay: the POST handlers with time passing and GET chat/messages, on   *)
(* a store that is empty, or that already holds the ToListLimit messages   *)
(* of one long session, written one every millisecond by earlier requests  *)
(* (of this server or of another one with its own clock). On the long      *)
(* store one more request is followed.                                     *)

ReplayMessage == "What is AI?"

ReplayReply == "AI is a kind of processing that helps computers"

\* How many messages the store holds at the start.
BacklogSizes == {0, ToListLimit}

\* The i-th message of the long session, as send_chat_message stored it.
backlog_message(i) ==
    prepare_for_mongo(
        [id |-> 0 - i, session_id |-> "s1", message |-> ReplayMessage,
         response |-> sanitize(ReplayMessage, ReplayReply).response,
         model_provider |-> "openai", model_name |-> "gpt-5",
         timestamp |-> [second |-> (i * 1000) \div 1000000,
                        microsecond |-> (i * 1000) % 1000000],
         is_safe |-> sanitize(ReplayMessage, ReplayReply).is_safe])

\* The long session, as create_chat_session and the updates left it.
backlog_session(n) ==
    [prepare_for_mongo([id |-> "s1", session_name |-> "My AI chat",
                        created_at |-> [second |-> 0, microsecond |-> 0],
                        total_messages |-> 0])
        EXCEPT !.total_messages = n]

ReplayInit ==
    /\ input = NoInput
    /\ result = NoResult
    /\ api_key = TRUE
    /\ clock = 1
    /\ \E n \in BacklogSizes :
        /\ chat_sessions = IF n = 0 THEN << >> ELSE << backlog_session(n) >>
        /\ chat_messages = [i \in 1..n |-> backlog_message(i)]
        /\ req = [p \in 1..(IF n = 0 THEN MaxRequests ELSE 1) |-> IdleRequest]
    /\ listing = NoListing

\* Every request gets its reply and both its writes succeed.
ReplayNext ==
    \/ \E id \in OneSession, name \in SessionNames : create_chat_session(id, name)
    \/ \E p \in DOMAIN req, sid \in SessionIds, model \in ModelChoices :
            send_chat_message(p, sid, ReplayMessage, model)
    \/ \E p \in DOMAIN req : llm_replies(p, ReplayReply)
    \/ \E p \in DOMAIN req : insert_done(p)
    \/ \E p \in DOMAIN req : update_done(p)
    \/ \E sid \in SessionIds, ties \in BOOLEAN : get_chat_messages(sid, ties)
    \/ Tick

SpecReplay == ReplayInit /\ [][ReplayNext]_vars

-----------------------------------------------------------------------------
(* The text harness: the helpers called on their own. The replies are put  *)
(* together from fragments (terms, keywords, and pieces that join into     *)
(* one) or taken whole.                                                    *)

MaxFragments == 2

ReplyFragments ==
    { "artificial intelligence", "algorithm", "neural network", "processing",
      "generate", "sophisticated", "implement",
      "war", "mean", "Violence",
      "w", "raci", "appropriate", "algorith", "ificial intelligence", "enerate",
      "Algorithm", " " }

\* Replies taken whole: each keyword, the other terms, and the replies of
\* the scenarios.
WholeReplies ==
    { "violence", "WEAPON", "kill", "death", "blood", "Fight",
      "inappropriate", "adult", "mature", "scary", "horror", "fear",
      "hate", "racism", "discrimination", "bullying",
      "machine learning", "complexity", "analyze",
      "softWEAPON", "software", "Wars are bad", "I like puzzle games",
      "Violence is never okay",
      "This uses artificial intelligence and algorithm logic",
      "AI is a kind of processing that helps computers" }

UserMessages == { "", "What is AI?", "Tell me about WAR" }

RECURSIVE Concats(_)
Concats(n) ==
    IF n = 0 THEN { "" }
    ELSE Concats(n - 1) \cup { a \o f : a \in Concats(n - 1), f \in ReplyFragments }

ReplyTexts == Concats(MaxFragments) \cup WholeReplies

TextInit ==
    /\ input \in [message : UserMessages, response : ReplyTexts]
    /\ result = NoResult
    /\ api_key = TRUE
    /\ clock = 0
    /\ chat_sessions = << >>
    /\ chat_messages = << >>
    /\ req = [p \in Requests |-> IdleRequest]
    /\ listing = NoListing

ServerUnchanged == UNCHANGED <<api_key, clock, chat_sessions, chat_messages, req, listing>>

CallClassify ==
    /\ result = NoResult
    /\ result' = [op |-> "is_content_safe_for_kids",
                  value |-> is_content_safe_for_kids(input.message, input.response)]
    /\ UNCHANGED input
    /\ ServerUnchanged

CallSimplify ==
    /\ result = NoResult
    /\ result' = [op |-> "make_kid_friendly", value |-> make_kid_friendly(input.response)]
    /\ UNCHANGED input
    /\ ServerUnchanged

\* make_kid_friendly called on what it returned.
CallSimplifyAgain ==
    /\ result.op = "make_kid_friendly"
    /\ result' = [op |-> "make_kid_friendly twice", first |-> result.value,
                  value |-> make_kid_friendly(result.value)]
    /\ UNCHANGED input
    /\ ServerUnchanged

CallSanitize ==
    /\ result = NoResult
    /\ result' = [op |-> "sanitize", value |-> sanitize(input.message, input.response)]
    /\ UNCHANGED input
    /\ ServerUnchanged

TextNext == CallClassify \/ CallSimplify \/ CallSimplifyAgain \/ CallSanitize

SpecText == TextInit /\ [][TextNext]_vars

-----------------------------------------------------------------------------
(* What the claims say of the helpers, stated on the characters of the     *)
(* texts and not through the helpers themselves.                           *)

ClaimedKeywords ==
    { "violence", "weapon", "kill", "death", "blood", "war", "fight",
      "inappropriate", "adult", "mature", "scary", "horror", "fear",
      "hate", "racism", "discrimination", "bullying", "mean" }

ClaimedTerms ==
    << "artificial intelligence", "algorithm", "machine learning", "neural network",
       "processing", "generate", "sophisticated", "complexity", "analyze", "implement" >>

\* word stands in text at position i, letter for letter.
OccursAt(text, i, word) ==
    /\ i + Len(word) - 1 <= Len(text)
    /\ \A j \in 1..Len(word) : CharAt(text, i + j - 1) = CharAt(word, j)

\* word stands in text at position i, whatever the case of the text's letters.
OccursAtAnyCase(text, i, word) ==
    /\ i + Len(word) - 1 <= Len(text)
    /\ \A j \in 1..Len(word) : lower_char(CharAt(text, i + j - 1)) = CharAt(word, j)

HasKeywordAnyCase(text) ==
    \E w \in ClaimedKeywords : \E i \in 1..Len(text) : OccursAtAnyCase(text, i, w)

HasComplexTerm(text) ==
    \E n \in 1..Len(ClaimedTerms) : \E i \in 1..Len(text) : OccursAt(text, i, ClaimedTerms[n])

\* Where the occurrences of old that get replaced start: from position i on,
\* with the text before position free already used by an occurrence.
RECURSIVE GreedyStarts(_, _, _, _)
GreedyStarts(s, old, i, free) ==
    IF i + Len(old) - 1 > Len(s) THEN {}
    ELSE IF i >= free /\ OccursAt(s, i, old)
         THEN {i} \cup GreedyStarts(s, old, i + 1, i + Len(old))
         ELSE GreedyStarts(s, old, i + 1, free)

RECURSIVE JoinPieces(_, _, _, _, _)
JoinPieces(s, old, new, starts, i) ==
    IF i > Len(s) THEN ""
    ELSE (IF i \in starts THEN new
          ELSE IF \E j \in starts : j < i /\ i < j + Len(old) THEN ""
          ELSE CharAt(s, i)) \o JoinPieces(s, old, new, starts, i + 1)

\* s with every non-overlapping occurrence of old, taken from the left, replaced.
ReplaceAll(s, old, new) == JoinPieces(s, old, new, GreedyStarts(s, old, 1, 1), 1)

SimpleTermOf(term) ==
    replacements[CHOOSE k \in 1..Len(replacements) : replacements[k].complex_word = term].simple_word

\* The left fold over the first n claimed terms.
RECURSIVE ClaimedFold(_, _)
ClaimedFold(t, n) ==
    IF n = 0 THEN t
    ELSE ReplaceAll(ClaimedFold(t, n - 1), ClaimedTerms[n], SimpleTermOf(ClaimedTerms[n]))

\* C1: is_content_safe_for_kids(u, r) is false exactly when one of the 18
\* keywords stands somewhere in u + " " + r, inside a longer word or not and
\* whatever the case of the letters of u and r.
C1_ClassifyIffKeyword ==
    result.op = "is_content_safe_for_kids" =>
        /\ Cardinality(ClaimedKeywords) = 18
        /\ (result.value = FALSE) <=> HasKeywordAnyCase(input.message \o " " \o input.response)

\* C1 witness: a reply with an upper-case keyword inside a longer word is
\* classified unsafe.
C1_Witness ==
    /\ result.op = "is_content_safe_for_kids"
    /\ input.message = "What is AI?"
    /\ input.response = "softWEAPON"
    /\ result.value = FALSE

\* C2: whenever the classifier returns false for the user message and the
\* simplified reply, the sanitization step yields the fallback string and
\* is_safe false.
C2_UnsafeGivesFallback ==
    result.op = "sanitize" =>
        (~ is_content_safe_for_kids(input.message, make_kid_friendly(input.response)) =>
            /\ result.value.response = FallbackResponse
            /\ result.value.is_safe = FALSE)

\* C2 witness: a safe question with a reply that holds a keyword is answered
\* with the fallback.
C2_Witness ==
    /\ result.op = "sanitize"
    /\ input.message = "What is AI?"
    /\ input.response = "meanalgorithm"
    /\ result.value.response = FallbackResponse
    /\ ~ result.value.is_safe

\* C3: is_safe is the classifier's answer on the user message and the
\* simplified reply (not the raw one), and when it is true the response is
\* make_kid_friendly(raw reply).
C3_ClassifiesSimplified ==
    result.op = "sanitize" =>
        /\ result.value.is_safe =
               ~ HasKeywordAnyCase(input.message \o " " \o make_kid_friendly(input.response))
        /\ result.value.is_safe => result.value.response = make_kid_friendly(input.response)

\* C3 witness: a raw reply with a keyword that its simplified text no longer
\* has is passed on, simplified, as safe.
C3_Witness ==
    /\ result.op = "sanitize"
    /\ input.message = ""
    /\ input.response = "wartificial intelligence"
    /\ result.value = [response |-> "wAI (like a smart computer)", is_safe |-> TRUE]

\* C4 (as claimed): an exchange with a keyword in the user message or the raw
\* reply always ends with is_safe false and the fallback string.
C4_NoLaundering ==
    (result.op = "sanitize" /\ HasKeywordAnyCase(input.message \o " " \o input.response)) =>
        /\ result.value.is_safe = FALSE
        /\ result.value.response = FallbackResponse

\* C5 (as claimed): make_kid_friendly applied twice gives what it gives
\* applied once, and its result holds no complex term.
C5_Idempotent ==
    result.op = "make_kid_friendly twice" =>
        /\ result.value = result.first
        /\ ~ HasComplexTerm(result.first)

\* C5 (amended): make_kid_friendly applied twice gives what it gives applied
\* once exactly when its first result holds no complex term.
C5_IdempotentIffNoTermLeft ==
    result.op = "make_kid_friendly twice" =>
        ((result.value = result.first) <=> ~ HasComplexTerm(result.first))

\* C5 witness: a text with two occurrences of a term, whose simplified text
\* has no term left and is left as it is by the second call.
C5_Witness ==
    /\ result.op = "make_kid_friendly twice"
    /\ input.response = "algorithmalgorithm"
    /\ result.first = "computer instructionscomputer instructions"
    /\ result.value = result.first

\* C10: make_kid_friendly(t) is the left fold, over the ten terms in their
\* declared order, of replacing every non-overlapping occurrence of the term
\* (case-sensitive, plain substring) by its simple term; a text with no
\* complex term comes back unchanged.
C10_LeftFoldInOrder ==
    result.op = "make_kid_friendly" =>
        /\ result.value = ClaimedFold(input.response, Len(ClaimedTerms))
        /\ ~ HasComplexTerm(input.response) => result.value = input.response

\* C10 witness: "thinking", put in for "processing", joins the text after it
\* into "generate", which the later step replaces.
C10_Witness ==
    /\ result.op = "make_kid_friendly"
    /\ input.response = "processingenerate"
    /\ result.value = "thinkincreate"

-----------------------------------------------------------------------------
(* What the claims say of the endpoints.                                   *)

\* a is not later than b.
datetime_le(a, b) ==
    \/ a.second < b.second
    \/ a.second = b.second /\ a.microsecond <= b.microsecond

\* The documents stored for a session.
StoredFor(session_id) ==
    { chat_messages[i] : i \in { j \in 1..Len(chat_messages) :
                                    chat_messages[j].session_id = session_id } }

\* The messages of the listing, as they would be stored.
Listed == { prepare_for_mongo(listing.messages[k]) : k \in 1..Len(listing.messages) }

ListingInOrder ==
    \A k \in 1..(Len(listing.messages) - 1) :
        datetime_le(listing.messages[k].timestamp, listing.messages[k + 1].timestamp)

\* C8 (as claimed): the listing holds exactly the stored messages of the
\* requested session, each once, by timestamp ascending.
C8_ListsAllOfSession ==
    listing # NoListing =>
        /\ Listed = StoredFor(listing.session_id)
        /\ Len(listing.messages) = Cardinality(StoredFor(listing.session_id))
        /\ ListingInOrder

\* C8 (amended): the listing holds only stored messages of the requested
\* session, each once, by timestamp ascending: all of them when they are at
\* most 1000, and else 1000 of them, none later than a message left out.
C8_ListsEarliestOfSession ==
    listing # NoListing =>
        LET stored == StoredFor(listing.session_id)
            n == Len(listing.messages)
        IN  /\ Listed \subseteq stored
            /\ Cardinality(Listed) = n
            /\ n = (IF Cardinality(stored) <= 1000 THEN Cardinality(stored) ELSE 1000)
            /\ ListingInOrder
            /\ \A doc \in stored \ Listed :
                    datetime_le(listing.messages[n].timestamp, fromisoformat(doc.timestamp))

\* C8 witness: the long session has one message more than the limit; the new
\* message, stored last, is listed among the older ones at its place in
\* time, and the listing stops at 1000.
C8_Witness ==
    /\ listing.session_id = "s1"
    /\ Len(chat_messages) = 1001
    /\ chat_messages[1001].id = 1
    /\ Len(listing.messages) = 1000
    /\ \E k \in 2..999 : listing.messages[k].id = 1

\* C6: a request that succeeds and whose user message holds an unsafe
\* keyword, in any letter case, returns a record with the fallback string
\* and is_safe false, whatever the provider answered, and that record is
\* the stored one.
C6_UnsafeMessageGetsFallback ==
    \A p \in Requests :
        (req[p].status = 200 /\ HasKeywordAnyCase(req[p].message)) =>
            /\ req[p].body.response = FallbackResponse
            /\ req[p].body.is_safe = FALSE
            /\ req[p].body.message = req[p].message
            /\ \E i \in 1..Len(chat_messages) : chat_messages[i] = prepare_for_mongo(req[p].body)

\* C6 witness: an upper-case keyword in the message and a harmless reply.
C6_Witness ==
    \E p \in Requests :
        /\ req[p].status = 200
        /\ req[p].message = "Tell me about VIOLENCE and weapons"
        /\ req[p].ai_response = "AI is a kind of processing that helps computers"
        /\ req[p].body.response = FallbackResponse

\* The 500s of a request that has not reached the sanitization.
BeforeSanitization == {"API key not configured", "provider error"}

\* C7: a request that fails on the missing key or on the provider call ends
\* with a 500 in the step that fails, which changes neither collection; the
\* provider was called at most once; the request built and stored no record,
\* and takes no step afterwards.
C7_EarlyFailureLeavesStoreAlone ==
    [][\A p \in Requests :
        req'[p].detail \in BeforeSanitization =>
            /\ req'[p].pc = "done"
            /\ req'[p].status = 500
            /\ req'[p].llm_calls = (IF req'[p].detail = "provider error" THEN 1 ELSE 0)
            /\ req'[p].chat_message = NoChatMessage
            /\ req'[p].body = NoChatMessage
            /\ \A i \in 1..Len(chat_messages') : chat_messages'[i].id # p
            /\ req[p].detail \notin BeforeSanitization =>
                    /\ chat_messages' = chat_messages
                    /\ chat_sessions' = chat_sessions
            /\ req[p].detail \in BeforeSanitization => req'[p] = req[p]]_vars

\* C7 witness: one request has failed on the provider call, another one has
\* succeeded, and the store holds the one message, counted once.
C7_Witness ==
    \E p, q \in Requests :
        /\ req[p].status = 500
        /\ req[p].detail = "provider error"
        /\ req[q].status = 200
        /\ Len(chat_messages) = 1
        /\ Len(chat_sessions) = 1
        /\ chat_sessions[1].total_messages = 1

\* What one call on message m and raw reply r yields, stated on the texts.
ExpectedPair(m, r) ==
    LET simplified == ClaimedFold(r, Len(ClaimedTerms))
    IN  IF HasKeywordAnyCase(m \o " " \o simplified)
        THEN [response |-> FallbackResponse, is_safe |-> FALSE]
        ELSE [response |-> simplified, is_safe |-> TRUE]

\* The pair of each message and raw reply a request can carry, from one call
\* made on its own.
SequentialPairs == [m \in Messages, r \in Replies |-> ExpectedPair(m, r)]

\* C9: whatever the interleaving of the requests, the response and is_safe
\* of each request are those of one call on its own message and raw reply.
C9_SanitizedFromOwnInputs ==
    \A p \in Requests :
        req[p].chat_message # NoChatMessage =>
            [response |-> req[p].chat_message.response,
             is_safe |-> req[p].chat_message.is_safe]
                = SequentialPairs[req[p].message, req[p].ai_response]

\* C9 witness: two requests in flight at once, with different messages and
\* different replies, one found safe and one unsafe.
C9_Witness ==
    /\ req[1].pc = "insert_one"
    /\ req[2].pc = "insert_one"
    /\ req[1].message # req[2].message
    /\ req[1].ai_response # req[2].ai_response
    /\ req[1].chat_message.is_safe
    /\ ~ req[2].chat_message.is_safe

\* C11: every stored chat record either has is_safe false and the fallback
\* string as its response, or has is_safe true and no keyword, in any case,
\* in message + " " + response; its message is the message of the request
\* that wrote it; and a request that returned a record returned the one it
\* stored, field for field, the timestamp read back from its stored string.
C11_StoreInvariant ==
    /\ \A i \in 1..Len(chat_messages) :
        LET doc == chat_messages[i]
        IN  /\ \/ doc.is_safe = FALSE /\ doc.response = FallbackResponse
               \/ doc.is_safe = TRUE /\ ~ HasKeywordAnyCase(doc.message \o " " \o doc.response)
            /\ doc.id \in Requests
            /\ doc.message = req[doc.id].message
            /\ doc.session_id = req[doc.id].session_id
    /\ \A p \in Requests :
        req[p].status = 200 =>
            /\ Cardinality({i \in 1..Len(chat_messages) : chat_messages[i].id = p}) = 1
            /\ \E i \in 1..Len(chat_messages) : parse_from_mongo(chat_messages[i]) = req[p].body

\* C11 witness: the store holds a fallback record and a record found safe,
\* and one of the two has been returned to its caller.
C11_Witness ==
    /\ Len(chat_messages) = 2
    /\ \E i, j \in 1..2 :
        /\ chat_messages[i].is_safe = FALSE
        /\ chat_messages[i].response = FallbackResponse
        /\ chat_messages[j].is_safe = TRUE
        /\ chat_messages[j].response # chat_messages[j].message
    /\ \E p \in Requests : req[p].status = 200 /\ req[p].body.is_safe = TRUE

\* Requests to two sessions, each created or not, with every outcome of the
\* provider call and of the two writes.
CounterNext ==
    \/ \E id \in SessionIds, name \in SessionNames : create_chat_session(id, name)
    \/ \E p \in Requests, sid \in SessionIds, model \in ModelChoices :
            send_chat_message(p, sid, ReplayMessage, model)
    \/ \E p \in Requests : llm_replies(p, ReplayReply)
    \/ \E p \in Requests : llm_fails(p)
    \/ \E p \in Requests : insert_done(p)
    \/ \E p \in Requests : insert_fails(p)
    \/ \E p \in Requests : update_done(p)
    \/ \E p \in Requests : update_fails(p)

SpecCounter == Init /\ [][CounterNext]_vars

\* The stored chat records of a session.
RecordsOf(session_id) ==
    {i \in 1..Len(chat_messages) : chat_messages[i].session_id = session_id}

\* The requests for a session whose record is stored and whose update_one has
\* not returned.
BetweenInsertAndIncrement(session_id) ==
    {p \in Requests : req[p].session_id = session_id /\ req[p].pc = "update_one"}

\* The requests for a session whose update_one raised.
IncrementFailed(session_id) ==
    {p \in Requests : req[p].session_id = session_id /\ req[p].detail = "update error"}

\* C12: a session enters the store with total_messages 0; the
\* total_messages of every stored session is at most the number of stored
\* chat records of that session, and is that number whenever no request for
\* the session stands between its insert and its increment and no increment
\* for the session has failed.
C12_CounterConsistency ==
    /\ [](\A k \in 1..Len(chat_sessions) :
            LET session == chat_sessions[k]
                records == Cardinality(RecordsOf(session.id))
            IN  /\ session.total_messages \in 0..records
                /\ (BetweenInsertAndIncrement(session.id) = {}
                        /\ IncrementFailed(session.id) = {})
                    => session.total_messages = records)
    /\ [][\A k \in 1..Len(chat_sessions') :
            k > Len(chat_sessions) => chat_sessions'[k].total_messages = 0]_vars

\* C12 witness: two sessions are stored; one has a record stored and not yet
\* counted while the other has its one record counted.
C12_Witness ==
    /\ Len(chat_sessions) = 2
    /\ \E j, k \in 1..2 :
        /\ chat_sessions[j].total_messages = 0
        /\ Cardinality(RecordsOf(chat_sessions[j].id)) = 1
        /\ BetweenInsertAndIncrement(chat_sessions[j].id) # {}
        /\ chat_sessions[k].total_messages = 1
        /\ Cardinality(RecordsOf(chat_sessions[k].id)) = 1

====
